---- MODULE Spec2Model ----
(***************************************************************************)
(* Model of manage_product_tags.py: a mapping store (product type -> tags,  *)
(* SQLite table product_type_tags), the tag reconciliation performed while  *)
(* scanning the remote catalog, and the two tagging runs (interactive and   *)
(* unattended) that write the merged tag strings back.                      *)
(*                                                                         *)
(* Python strings are modelled as sequences of one-character strings, so    *)
(* that split, join, strip and sorted are computed as Python computes them. *)
(***************************************************************************)
EXTENDS Integers, Sequences, FiniteSets, TLC

\* ---------------------------------------------------------------- bounds
\* Longest current tag string drawn for the reconciler.
MaxCurLen == 4
\* Longest desired-tags sequence drawn for the reconciler.
MaxDesired == 2
\* Most rows of the spreadsheet handed to an import.
MaxRows == 2
\* Most products in the remote catalog.
MaxProducts == 3
\* Most tagging runs in one behaviour.
MaxRuns == 1

\* ------------------------------------------------- strings (Python str)
\* TAG_SEPARATOR = ";"
TAG_SEPARATOR == <<";">>
\* SHOPIFY_TAG_SEPARATOR = ", "
SHOPIFY_TAG_SEPARATOR == <<",", " ">>

\* Unicode code point of a character (ord), for the characters the model uses.
CodePoint(c) ==
    CASE c = " " -> 32
      [] c = "," -> 44
      [] c = "7" -> 55
      [] c = ";" -> 59
      [] c = "H" -> 72
      [] c = "S" -> 83
      [] c = "a" -> 97
      [] c = "b" -> 98
      [] c = "d" -> 100
      [] c = "e" -> 101
      [] c = "l" -> 108
      [] c = "n" -> 110
      [] c = "o" -> 111
      [] c = "s" -> 115
      [] c = "w" -> 119

Range(f) == {f[i] : i \in DOMAIN f}

\* s < t for Python strings: lexicographic by code point, a proper prefix first.
RECURSIVE StrLess(_, _)
StrLess(s, t) ==
    IF t = <<>> THEN FALSE
    ELSE IF s = <<>> THEN TRUE
    ELSE IF Head(s) = Head(t) THEN StrLess(Tail(s), Tail(t))
    ELSE CodePoint(Head(s)) < CodePoint(Head(t))

\* s.find(sep) as a 1-based index, 0 when sep does not occur.
RECURSIVE FindFrom(_, _, _)
FindFrom(s, sep, i) ==
    IF i + Len(sep) - 1 > Len(s) THEN 0
    ELSE IF SubSeq(s, i, i + Len(sep) - 1) = sep THEN i
    ELSE FindFrom(s, sep, i + 1)

\* s.split(sep): the pieces between the non-overlapping occurrences of sep,
\* scanned left to right; always at least one piece.  from[i] is the split of
\* what s holds from position i on.
Split(s, sep) ==
    LET from[i \in 1..(Len(s) + 1)] ==
            LET k == FindFrom(s, sep, i)
            IN IF k = 0 THEN <<SubSeq(s, i, Len(s))>>
               ELSE <<SubSeq(s, i, k - 1)>> \o from[k + Len(sep)]
    IN from[1]

\* sep.join(pieces): upto[n] joins the first n pieces.
Join(sep, pieces) ==
    LET upto[n \in 0..Len(pieces)] ==
            IF n = 0 THEN <<>>
            ELSE IF n = 1 THEN pieces[1]
            ELSE upto[n - 1] \o sep \o pieces[n]
    IN upto[Len(pieces)]

\* s.lstrip() / s.rstrip() / s.strip(): the model's only whitespace is " ".
LStrip(s) ==
    LET leading == {k \in 1..Len(s) : \A j \in 1..k : s[j] = " "}
    IN SubSeq(s, Cardinality(leading) + 1, Len(s))

RStrip(s) ==
    LET trailing == {k \in 1..Len(s) : \A j \in k..Len(s) : s[j] = " "}
    IN SubSeq(s, 1, Len(s) - Cardinality(trailing))

Strip(s) == RStrip(LStrip(s))

\* sorted(S) for a set S of strings: the i-th entry is the string of S that
\* has i - 1 strings of S below it.
Sorted(S) ==
    [i \in 1..Cardinality(S) |->
        CHOOSE x \in S : Cardinality({y \in S : StrLess(y, x)}) = i - 1]

\* All strings over alphabet A of length at most n.
StringsUpTo(A, n) == UNION {[1..k -> A] : k \in 0..n}

\* ------------------------------------------------------ tag reconciler
\* CurrentTags with every piece stripped of surrounding blanks.
CurrentTags_Stripped(tags) ==
    IF tags = <<>> THEN {}
    ELSE {Strip(t) : t \in Range(Split(tags, SHOPIFY_TAG_SEPARATOR))}

\* set(product.tags.split(SHOPIFY_TAG_SEPARATOR) if product.tags else [])
CurrentTags(tags) ==
    IF tags = <<>> THEN {} ELSE Range(Split(tags, SHOPIFY_TAG_SEPARATOR))

\* [tag for tag in type_tags if tag not in current_tags]
RECURSIVE TagsToAdd(_, _)
TagsToAdd(type_tags, current_tags) ==
    IF type_tags = <<>> THEN <<>>
    ELSE IF Head(type_tags) \notin current_tags
         THEN <<Head(type_tags)>> \o TagsToAdd(Tail(type_tags), current_tags)
         ELSE TagsToAdd(Tail(type_tags), current_tags)

\* The tag string is replaced by the tags to add.
MergeTags_OnlyAdded(tags, tags_to_add) ==
    Join(SHOPIFY_TAG_SEPARATOR, Sorted(Range(tags_to_add)))

\* The tags to add are appended to the tag string as it stands.
MergeTags_Appended(tags, tags_to_add) ==
    IF tags = <<>> THEN Join(SHOPIFY_TAG_SEPARATOR, tags_to_add)
    ELSE tags \o SHOPIFY_TAG_SEPARATOR \o Join(SHOPIFY_TAG_SEPARATOR, tags_to_add)

\* current_tags = set(...); current_tags.update(tags_to_add);
\* product.tags = SHOPIFY_TAG_SEPARATOR.join(sorted(current_tags))
MergeTags(tags, tags_to_add) ==
    CHOOSE joined \in
        { Join(SHOPIFY_TAG_SEPARATOR, sorted) :
            sorted \in { Sorted(current_tags) :
                current_tags \in {CurrentTags(tags) \cup Range(tags_to_add)} } } : TRUE

\* [tag.strip() for tag in tags_str.split(TAG_SEPARATOR)]
ParseTags(tags_str) ==
    LET pieces == Split(tags_str, TAG_SEPARATOR)
    IN [i \in 1..Len(pieces) |-> Strip(pieces[i])]

\* ------------------------------------------------------------ variables
VARIABLES
    \* reconciler harness: one product's tag string against one desired list
    rc_phase,       \* "input", "once" (reconciled once), "twice"
    rc_type_tags,   \* desired tags of the product's type (type_tags)
    rc_tags0,       \* product.tags before any reconciliation
    rc_add1,        \* tags_to_add computed by the first reconciliation
    rc_tags1,       \* product.tags after the first reconciliation
    rc_add2,        \* tags_to_add computed by the second reconciliation
    rc_tags2,       \* product.tags after the second reconciliation
    \* merge harness: two merges side by side
    mg_phase,       \* "off", "input", "one" (the first merged), "both"
    mg_a,           \* the first merge's input [tags, tags_to_add]
    mg_b,           \* the second merge's input
    mg_new_a,       \* product.tags as the first merge wrote it
    mg_new_b,       \* product.tags as the second merge wrote it
    \* mapping store: the rows of table product_type_tags
    store,          \* set of rows [product_type, tags] (tags: the stored string)
    st_phase,       \* "boot" before setup_database has run, then "menu"
    st_prev,        \* the rows before the last store operation
    st_op,          \* the last store operation and its inputs
    st_msg,         \* what the last store operation reported
    \* remote catalog and the process-wide session
    catalog,        \* sequence of products [product_type, tags], as the shop holds them
    session,        \* "none" or "active" (ShopifyResource's activated session)
    \* a tagging run: position and locals
    pc,             \* "idle", "setup", "load", "find", "scan", "confirm", "apply",
                    \* "report", "except", "finally"
    mode,           \* "interactive" (manage_product_type_tags) or "auto"
    product_type_mappings,    \* as load_product_type_mappings returned them
    product_page,   \* the page being scanned: products [id, product_type, tags]
    fetched,        \* how many products the pages fetched so far hold
    products_with_type_tags,  \* the worklist: [id, tags, tags_to_add]
    item,           \* index of the next worklist item of the apply loop
    update_count,
    \* what the run did, for the properties
    ru_processed,   \* ids of the products the scan examined, in order
    ru_attempts,    \* ids whose save was attempted, in order
    ru_outcomes,    \* what each attempted save did: "true", "false", "raise"
    ru_saved,       \* [id, tags] of every save that succeeded, in order
    ru_asked,       \* the confirmation was requested
    ru_granted,     \* the confirmation was granted
    ru_error,       \* the top-level handler reported an error
    ru_failed,      \* what raised in the run: "none", "session", "fetch", "input"
    ru_end,         \* how the run ended
    ru_catalog0,    \* the catalog when the last run started
    ru_scanned,     \* the scan returned its worklist
    ru_runs         \* runs finished

rcVars == <<rc_phase, rc_type_tags, rc_tags0, rc_add1, rc_tags1, rc_add2, rc_tags2>>

mgVars == <<mg_phase, mg_a, mg_b, mg_new_a, mg_new_b>>

\* The harnesses of the pure functions.
harnessVars == <<rcVars, mgVars>>

stVars == <<store, st_phase, st_prev, st_op, st_msg>>

caVars == <<catalog, session>>

runVars ==
    <<pc, mode, product_type_mappings, product_page, fetched, products_with_type_tags,
      item, update_count>>

histVars ==
    <<ru_processed, ru_attempts, ru_outcomes, ru_saved, ru_asked, ru_granted, ru_error, ru_failed,
      ru_end, ru_catalog0, ru_scanned, ru_runs>>

vars == <<harnessVars, stVars, caVars, runVars, histVars>>

\* No run in progress, none finished, an empty catalog, no session.
RunIdle ==
    /\ catalog = <<>>
    /\ session = "none"
    /\ pc = "idle"
    /\ mode = "none"
    /\ product_type_mappings = <<>>
    /\ product_page = <<>>
    /\ fetched = 0
    /\ products_with_type_tags = <<>>
    /\ item = 1
    /\ update_count = 0
    /\ ru_processed = <<>>
    /\ ru_attempts = <<>>
    /\ ru_outcomes = <<>>
    /\ ru_saved = <<>>
    /\ ru_asked = FALSE
    /\ ru_granted = FALSE
    /\ ru_error = FALSE
    /\ ru_failed = "none"
    /\ ru_end = "none"
    /\ ru_catalog0 = <<>>
    /\ ru_scanned = FALSE
    /\ ru_runs = 0

runAll == <<caVars, runVars, histVars>>

\* The reconciler harness at rest (the other specifications leave it there).
RcIdle ==
    /\ rc_phase = "off"
    /\ rc_type_tags = <<>>
    /\ rc_tags0 = <<>>
    /\ rc_add1 = <<>>
    /\ rc_tags1 = <<>>
    /\ rc_add2 = <<>>
    /\ rc_tags2 = <<>>

\* The merge harness at rest.
MgIdle ==
    /\ mg_phase = "off"
    /\ mg_a = [tags |-> <<>>, tags_to_add |-> <<>>]
    /\ mg_b = [tags |-> <<>>, tags_to_add |-> <<>>]
    /\ mg_new_a = <<>>
    /\ mg_new_b = <<>>

\* Every harness at rest (the store and the runs leave them there).
HarnessIdle == RcIdle /\ MgIdle

\* No store operation yet.
NoOp ==
    [op |-> "none", product_type |-> <<>>, tags |-> <<>>, confirm |-> FALSE,
     db_ok |-> TRUE, file |-> "none", rows |-> <<>>]

\* The store at rest (the reconciler specification leaves it there).
StIdle ==
    /\ store = {}
    /\ st_phase = "menu"
    /\ st_prev = {}
    /\ st_op = NoOp
    /\ st_msg = "none"

\* --------------------------------------------- reconciler specification
\* Characters of the drawn tag strings: two letters and the two separator characters.
Chars == {"a", "b", ",", " "}

\* Desired tags as load_product_type_mappings yields them: stripped pieces
\* without ";", among them the empty tag (from "a;" or ";") and tags that
\* hold the catalog separator (from "a, b;c").
TagPool ==
    { <<>>, <<"a">>, <<"b">>, <<",">>, <<"a", ",", " ", "b">> }

\* The scenario of the testable properties: "old, sale" against ["sale", "new"].
ExampleCurrent == <<"o", "l", "d", ",", " ", "s", "a", "l", "e">>

ExampleDesired == << <<"s", "a", "l", "e">>, <<"n", "e", "w">> >>

ExampleMerged ==
    <<"n", "e", "w", ",", " ", "o", "l", "d", ",", " ", "s", "a", "l", "e">>

DesiredSeqs == UNION {[1..k -> TagPool] : k \in 1..MaxDesired}

\* What one scan-and-apply does to one product of a mapped type: the scan
\* computes tags_to_add (lines 250-253); the product enters the worklist only
\* when that is non-empty (254-255), and the apply step then writes the
\* merged string (293-297). Otherwise the tag string is left as it is.
ReconciledTags(tags, type_tags) ==
    LET to_add == TagsToAdd(type_tags, CurrentTags(tags))
    IN IF to_add # <<>> THEN MergeTags(tags, to_add) ELSE tags

RcInit ==
    /\ rc_phase = "input"
    /\ rc_tags0 \in StringsUpTo(Chars, MaxCurLen) \cup {ExampleCurrent}
    /\ rc_type_tags \in DesiredSeqs \cup {ExampleDesired}
    /\ rc_add1 = <<>>
    /\ rc_tags1 = <<>>
    /\ rc_add2 = <<>>
    /\ rc_tags2 = <<>>
    /\ MgIdle
    /\ StIdle
    /\ RunIdle

ReconcileOnce ==
    /\ rc_phase = "input"
    /\ rc_add1' = TagsToAdd(rc_type_tags, CurrentTags(rc_tags0))
    /\ rc_tags1' = ReconciledTags(rc_tags0, rc_type_tags)
    /\ rc_phase' = "once"
    /\ UNCHANGED <<rc_type_tags, rc_tags0, rc_add2, rc_tags2>>
    /\ UNCHANGED <<mgVars, stVars, runAll>>

ReconcileAgain ==
    /\ rc_phase = "once"
    /\ rc_add2' = TagsToAdd(rc_type_tags, CurrentTags(rc_tags1))
    /\ rc_tags2' = ReconciledTags(rc_tags1, rc_type_tags)
    /\ rc_phase' = "twice"
    /\ UNCHANGED <<rc_type_tags, rc_tags0, rc_add1, rc_tags1>>
    /\ UNCHANGED <<mgVars, stVars, runAll>>

RcNext == ReconcileOnce \/ ReconcileAgain

ReconcileSpec == RcInit /\ [][RcNext]_vars

\* ------------------------------------------------- merge specification
\* Tag strings of the products merged side by side: without tags, with one
\* tag, with two tags in either order, with a tag twice, and with a tag that
\* differs from another one by a leading blank.
MergeCurrent ==
    { <<>>, <<"a">>, <<"b">>, <<" ", "a">>,
      <<"a", ",", " ", "b">>, <<"b", ",", " ", "a">>,
      <<"b", ",", " ", "b">>, <<"a", ",", " ", " ", "a">> }

\* Desired tags of the merged products' types.
MergeDesired ==
    UNION {[1..k -> {<<"a">>, <<"b">>, <<"a", ",", " ", "b">>}] : k \in 1..MaxDesired}

\* What the apply step is handed for one worklist item: the product's tag
\* string and the non-empty tags_to_add the scan computed from it (250-255).
MergeInputs ==
    { m \in { [tags |-> tags, tags_to_add |-> TagsToAdd(type_tags, CurrentTags(tags))] :
                 tags \in MergeCurrent, type_tags \in MergeDesired } :
        m.tags_to_add # <<>> }

MgInit ==
    /\ mg_phase = "input"
    /\ mg_a \in MergeInputs
    /\ mg_b \in MergeInputs
    /\ mg_new_a = <<>>
    /\ mg_new_b = <<>>
    /\ RcIdle
    /\ StIdle
    /\ RunIdle

\* Lines 293-296 on the first item.
MergeFirst ==
    /\ mg_phase = "input"
    /\ mg_new_a' = MergeTags(mg_a.tags, mg_a.tags_to_add)
    /\ mg_phase' = "one"
    /\ UNCHANGED <<mg_a, mg_b, mg_new_b, rcVars, stVars, runAll>>

\* Lines 293-296 on the second item.
MergeSecond ==
    /\ mg_phase = "one"
    /\ mg_new_b' = MergeTags(mg_b.tags, mg_b.tags_to_add)
    /\ mg_phase' = "both"
    /\ UNCHANGED <<mg_a, mg_b, mg_new_a, rcVars, stVars, runAll>>

MgNext == MergeFirst \/ MergeSecond

MergeSpec == MgInit /\ [][MgNext]_vars

\* ------------------------------------------------ mapping store (SQLite)
\* Rows of the store whose product_type is the given one.
RowsOf(st, product_type) == {r \in st : r.product_type = product_type}

\* SELECT id FROM product_type_tags WHERE product_type = ? ... fetchone()
Existing(st, product_type) == RowsOf(st, product_type) # {}

\* INSERT INTO product_type_tags (product_type, tags) VALUES (?, ?)
InsertRow(st, product_type, tags) ==
    st \cup {[product_type |-> product_type, tags |-> tags]}

\* UPDATE product_type_tags SET tags = ? ... WHERE product_type = ?
\* with the previous tags kept in front of the new ones.
UpdateRow_Append(st, product_type, tags) ==
    {IF r.product_type = product_type
        THEN [r EXCEPT !.tags = r.tags \o TAG_SEPARATOR \o tags] ELSE r : r \in st}

\* UPDATE product_type_tags SET tags = ?, updated_at = CURRENT_TIMESTAMP
\* WHERE product_type = ?
UpdateRow(st, product_type, tags) ==
    {IF r.product_type = product_type THEN [r EXCEPT !.tags = tags] ELSE r : r \in st}

\* DELETE FROM product_type_tags without the WHERE clause.
DeleteRow_All(st, product_type) == {}

\* DELETE FROM product_type_tags WHERE product_type = ?
DeleteRow(st, product_type) == st \ RowsOf(st, product_type)

\* INSERT OR REPLACE INTO product_type_tags (product_type, tags) VALUES (?, ?):
\* the row that conflicts on the UNIQUE product_type is deleted first.
InsertOrReplace(st, product_type, tags) ==
    InsertRow(DeleteRow(st, product_type), product_type, tags)

\* admin_menu, choice 2, with either field alone enough to go on.
UpsertAccepted_EitherField(product_type, tags) ==
    product_type # <<>> \/ tags # <<>>

\* admin_menu, choice 2: if product_type and tags
UpsertAccepted(product_type, tags) ==
    product_type # <<>> /\ tags # <<>>

\* A spreadsheet cell as pandas hands it over: missing (NaN), a string, or a
\* number (a column of numbers is read as numbers, which have no strip()).
NaN == [kind |-> "nan", val |-> <<>>]

Num == [kind |-> "num", val |-> <<"7">>]

Str(s) == [kind |-> "str", val |-> s]

\* pd.notna(cell)
NotNa(cell) == cell.kind # "nan"

\* The row loop of import_from_spreadsheet (lines 85-93) on the open
\* transaction: the rows as they stand when the loop ends, and whether it ended
\* by raising (strip() on a cell that is no string).
RECURSIVE ImportRows(_, _)
ImportRows(st, rows) ==
    IF rows = <<>> THEN [rows |-> st, raised |-> FALSE]
    ELSE LET row == Head(rows)
         IN IF NotNa(row.tipo_produto) /\ NotNa(row.tags)
            THEN IF row.tipo_produto.kind = "str" /\ row.tags.kind = "str"
                 THEN ImportRows(
                          InsertOrReplace(st, Strip(row.tipo_produto.val),
                                          Strip(row.tags.val)),
                          Tail(rows))
                 ELSE [rows |-> st, raised |-> TRUE]
            ELSE ImportRows(st, Tail(rows))

\* import_from_spreadsheet(conn, cursor): file is "missing" (no such file),
\* "unreadable" (the read raises), "no_columns" (a required column is
\* absent) or "ok". pending: the rows of the connection's transaction when the
\* function returns; committed: whether it reached conn.commit().
ImportFromSpreadsheet(st, file, rows) ==
    IF file = "missing" THEN [pending |-> st, committed |-> FALSE, msg |-> "file_not_found"]
    ELSE IF file = "unreadable" THEN [pending |-> st, committed |-> FALSE, msg |-> "import_error"]
    ELSE IF file = "no_columns" THEN [pending |-> st, committed |-> FALSE, msg |-> "column_missing"]
    ELSE LET done == ImportRows(st, rows)
         IN IF done.raised
            THEN [pending |-> done.rows, committed |-> FALSE, msg |-> "import_error"]
            ELSE [pending |-> done.rows, committed |-> TRUE, msg |-> "imported"]

\* Inputs of the store operations.
RawTypes == { <<>>, <<" ">>, <<" ", "S">>, <<"H">> }

RawTags == { <<>>, <<" ">>, <<"a", ";", "b">>, <<"b", " ">> }

\* Rows of the spreadsheet: a row without a product type, one without tags, two
\* complete rows, one whose product type is blank, and one whose product type
\* is a number.
SheetRows ==
    { [tipo_produto |-> NaN,                tags |-> Str(<<"b">>)],
      [tipo_produto |-> Str(<<" ", "S">>),  tags |-> NaN],
      [tipo_produto |-> Str(<<" ", "S">>),  tags |-> Str(<<"b">>)],
      [tipo_produto |-> Str(<<"H">>),       tags |-> Str(<<"a", ";", "b", " ">>)],
      [tipo_produto |-> Str(<<" ">>),       tags |-> Str(<<"b">>)],
      [tipo_produto |-> Num,                tags |-> Str(<<"b">>)] }

Sheets == UNION {[1..k -> SheetRows] : k \in 0..MaxRows}

\* The spreadsheet file as an import finds it.
ImportInputs ==
    {[file |-> f, rows |-> <<>>] : f \in {"missing", "unreadable", "no_columns"}}
        \cup {[file |-> "ok", rows |-> rows] : rows \in Sheets}

\* A database file left by an earlier execution of the program.
EarlierStores == { {}, {[product_type |-> <<"S">>, tags |-> <<"b">>]} }

StInit ==
    /\ store \in EarlierStores
    /\ st_phase = "boot"
    /\ st_prev = {}
    /\ st_op = NoOp
    /\ st_msg = "none"
    /\ HarnessIdle
    /\ RunIdle

\* setup_database(): imports the spreadsheet when the table is empty (a new
\* database file or one without rows), then commits whatever the connection
\* holds, also after an import that raised.
SetupDatabase ==
    /\ st_phase = "boot"
    /\ IF store = {}
       THEN \E inp \in ImportInputs :
               LET res == ImportFromSpreadsheet(store, inp.file, inp.rows)
               IN /\ st_op' = [NoOp EXCEPT !.op = "setup", !.file = inp.file,
                                           !.rows = inp.rows]
                  /\ store' = res.pending
                  /\ st_msg' = res.msg
       ELSE /\ st_op' = [NoOp EXCEPT !.op = "setup"]
            /\ store' = store
            /\ st_msg' = "found"
    /\ st_prev' = store
    /\ st_phase' = "menu"
    /\ UNCHANGED <<harnessVars, runAll>>

\* admin_menu choice 2 and add_mapping: both inputs are stripped; an empty one
\* is refused; an existing product_type is updated only after the operator
\* confirms; db_ok = FALSE is sqlite3 raising before the commit.
Upsert ==
    /\ st_phase = "menu"
    /\ \E raw_type \in RawTypes, raw_tags \in RawTags, confirm \in BOOLEAN, db_ok \in BOOLEAN :
          LET product_type == Strip(raw_type)
              tags == Strip(raw_tags)
          IN /\ st_op' = [NoOp EXCEPT !.op = "upsert", !.product_type = raw_type,
                                      !.tags = raw_tags, !.confirm = confirm,
                                      !.db_ok = db_ok]
             /\ IF ~UpsertAccepted(product_type, tags)
                THEN /\ store' = store
                     /\ st_msg' = "required"
                ELSE IF ~db_ok
                THEN /\ store' = store
                     /\ st_msg' = "error"
                ELSE IF Existing(store, product_type)
                THEN IF confirm
                     THEN /\ store' = UpdateRow(store, product_type, tags)
                          /\ st_msg' = "updated"
                     ELSE /\ store' = store
                          /\ st_msg' = "cancelled"
                ELSE /\ store' = InsertRow(store, product_type, tags)
                     /\ st_msg' = "added"
    /\ st_prev' = store
    /\ UNCHANGED <<st_phase, harnessVars, runAll>>

\* admin_menu choice 3 and remove_mapping.
Remove ==
    /\ st_phase = "menu"
    /\ \E raw_type \in RawTypes, confirm \in BOOLEAN, db_ok \in BOOLEAN :
          LET product_type == Strip(raw_type)
          IN /\ st_op' = [NoOp EXCEPT !.op = "remove", !.product_type = raw_type,
                                      !.confirm = confirm, !.db_ok = db_ok]
             /\ IF product_type = <<>>
                THEN /\ store' = store
                     /\ st_msg' = "required"
                ELSE IF ~confirm
                THEN /\ store' = store
                     /\ st_msg' = "none"
                ELSE IF ~db_ok
                THEN /\ store' = store
                     /\ st_msg' = "error"
                ELSE /\ store' = DeleteRow(store, product_type)
                     /\ st_msg' = IF Existing(store, product_type)
                                  THEN "removed" ELSE "not_found"
    /\ st_prev' = store
    /\ UNCHANGED <<st_phase, harnessVars, runAll>>

\* The operator answers "n" to the import's confirmation.
Declined == [file |-> "none", rows |-> <<>>]

\* admin_menu choice 4: import_from_spreadsheet on a fresh connection that is
\* closed without a commit of its own, so an import that raised leaves nothing.
BulkImport ==
    /\ st_phase = "menu"
    /\ \E inp \in ImportInputs \cup {Declined} :
          LET res == ImportFromSpreadsheet(store, inp.file, inp.rows)
          IN /\ st_op' = [NoOp EXCEPT !.op = "import", !.confirm = (inp # Declined),
                                      !.file = inp.file, !.rows = inp.rows]
             /\ IF inp = Declined
                THEN /\ store' = store
                     /\ st_msg' = "none"
                ELSE /\ store' = IF res.committed THEN res.pending ELSE store
                     /\ st_msg' = res.msg
    /\ st_prev' = store
    /\ UNCHANGED <<st_phase, harnessVars, runAll>>

StNext == SetupDatabase \/ Upsert \/ Remove \/ BulkImport

StoreSpec == StInit /\ [][StNext]_vars

\* --------------------------------------------------------- tagging runs
\* load_product_type_mappings(): product_type -> parsed tags, for every row.
LoadProductTypeMappings(st) ==
    [product_type \in {r.product_type : r \in st} |->
        ParseTags((CHOOSE r \in st : r.product_type = product_type).tags)]

\* The mapping is never taken for empty.
NoMappings_Never(mappings) == FALSE

\* if not product_type_mappings   (lines 235, 274, 379)
NoMappings(mappings) == DOMAIN mappings = {}

\* if tags_to_add, with the test left out.
HasTagsToAdd_Always(tags_to_add) == TRUE

\* if tags_to_add:  (line 254)
HasTagsToAdd(tags_to_add) == tags_to_add # <<>>

\* The for loop over one page (lines 244-255): the worklist items it appends.
RECURSIVE ScanProducts(_, _)
ScanProducts(page, mappings) ==
    IF page = <<>> THEN <<>>
    ELSE LET product == Head(page)
             rest == ScanProducts(Tail(page), mappings)
         IN IF product.product_type \in DOMAIN mappings
            THEN LET type_tags == mappings[product.product_type]
                     current_tags == CurrentTags(product.tags)
                     tags_to_add == TagsToAdd(type_tags, current_tags)
                 IN IF HasTagsToAdd(tags_to_add)
                    THEN <<[id |-> product.id, tags |-> product.tags,
                            tags_to_add |-> tags_to_add]>> \o rest
                    ELSE rest
            ELSE rest

\* A page of k products after the first `from` ones, as the catalog holds them
\* when the page is fetched.
PageOf(cat, from, k) ==
    [i \in 1..k |-> [id |-> from + i, product_type |-> cat[from + i].product_type,
                     tags |-> cat[from + i].tags]]

\* response.strip().lower(), for the letters an answer may hold.
Lower(s) ==
    [i \in 1..Len(s) |-> CASE s[i] = "S" -> "s" [] s[i] = "H" -> "h" [] OTHER -> s[i]]

\* What the operator may type at a confirmation prompt.
Responses == { <<"s">>, <<"n">>, <<" ", "S">>, <<"b">>, <<>> }

\* get_user_confirmation: response in ['s', 'n']
ValidResponse(response) == Lower(Strip(response)) \in { <<"s">>, <<"n">> }

\* The run goes on to apply whatever the operator answered.
AfterConfirmation_Always(granted) == "apply"

\* if not get_user_confirmation(...): return   (lines 285-287)
AfterConfirmation(granted) == IF granted THEN "apply" ELSE "finally"

\* What product.save() can do (lines 297, 397): return True after writing the
\* product, return False when the shop refuses it (nothing is written and
\* nothing is raised), or raise.
SaveOutcomes == {"true", "false", "raise"}

\* The product is in the catalog as saved.
Written(outcome) == outcome = "true"

\* update_count += 1 (lines 298, 398) is the statement after product.save(),
\* whose return value is not looked at: it runs unless save() raised.
CountedAsUpdated(outcome) == outcome # "raise"

\* except Exception in the apply loop (lines 300-301): on to the next item.
AfterSaveFailure(i, n) == i + 1

\* The finally clause leaves the session as it is.
ClearedSession_Kept(s) == s

\* finally: shopify.ShopifyResource.clear_session()   (lines 306-307)
ClearedSession(s) == "none"

\* get_products_for_type_tagging(product_type_mappings) when no fetch raises:
\* the worklist of the whole catalog, page after page.
GetProductsForTypeTagging(cat, mappings) ==
    IF NoMappings(mappings) THEN <<>>
    ELSE ScanProducts(PageOf(cat, 0, Len(cat)), mappings)

\* A run that ended before its apply loop.
EndedWithout(end) ==
    [end |-> end, writes |-> <<>>, update_count |-> 0, total |-> 0]

\* The apply loop of manage_product_type_tags (lines 289-303); outcomes[n]
\* is what the save of the n-th item does. upto[n] is the loop's state after
\* n items: the products written, update_count.
ApplyInteractive(worklist, outcomes) ==
    LET upto[n \in 0..Len(worklist)] ==
            IF n = 0 THEN [writes |-> <<>>, update_count |-> 0]
            ELSE [writes |->
                      IF Written(outcomes[n])
                      THEN Append(upto[n - 1].writes,
                                  [id |-> worklist[n].id,
                                   tags |-> MergeTags(worklist[n].tags,
                                                      worklist[n].tags_to_add)])
                      ELSE upto[n - 1].writes,
                  update_count |->
                      IF CountedAsUpdated(outcomes[n])
                      THEN upto[n - 1].update_count + 1
                      ELSE upto[n - 1].update_count]
    IN [end |-> "completed", writes |-> upto[Len(worklist)].writes,
        update_count |-> upto[Len(worklist)].update_count, total |-> Len(worklist)]

\* manage_product_type_tags() (lines 267-307) when nothing raises outside the
\* apply loop: what it writes and what it reports. db_ok = FALSE is the
\* database raising inside load_product_type_mappings, which then returns {}.
ManageProductTypeTags(st, db_ok, cat, granted, outcomes) ==
    LET mappings == IF db_ok THEN LoadProductTypeMappings(st) ELSE <<>>
        worklist == GetProductsForTypeTagging(cat, mappings)
    IN IF NoMappings(mappings) THEN EndedWithout("no_mapping")
       ELSE IF worklist = <<>> THEN EndedWithout("nothing_to_do")
       ELSE IF ~granted THEN EndedWithout("declined")
       ELSE ApplyInteractive(worklist, outcomes)

\* The unattended apply loop counting only the saves that returned True.
ApplyAuto_CountsWritten(worklist, outcomes) ==
    LET upto[n \in 0..Len(worklist)] ==
            IF n = 0 THEN [writes |-> <<>>, update_count |-> 0]
            ELSE IF Written(outcomes[n])
            THEN [writes |->
                      Append(upto[n - 1].writes,
                             [id |-> worklist[n].id,
                              tags |-> MergeTags(worklist[n].tags,
                                                 worklist[n].tags_to_add)]),
                  update_count |-> upto[n - 1].update_count + 1]
            ELSE upto[n - 1]
    IN [end |-> "completed", writes |-> upto[Len(worklist)].writes,
        update_count |-> upto[Len(worklist)].update_count, total |-> Len(worklist)]

\* The apply loop of auto_manage_tags_without_confirmation (lines 389-402).
ApplyAuto(worklist, outcomes) ==
    LET upto[n \in 0..Len(worklist)] ==
            IF n = 0 THEN [writes |-> <<>>, update_count |-> 0]
            ELSE [writes |->
                      IF Written(outcomes[n])
                      THEN Append(upto[n - 1].writes,
                                  [id |-> worklist[n].id,
                                   tags |-> MergeTags(worklist[n].tags,
                                                      worklist[n].tags_to_add)])
                      ELSE upto[n - 1].writes,
                  update_count |->
                      IF CountedAsUpdated(outcomes[n])
                      THEN upto[n - 1].update_count + 1
                      ELSE upto[n - 1].update_count]
    IN [end |-> "completed", writes |-> upto[Len(worklist)].writes,
        update_count |-> upto[Len(worklist)].update_count, total |-> Len(worklist)]

\* auto_manage_tags_without_confirmation() (lines 372-406) when nothing
\* raises outside the apply loop.
AutoManageTags(st, db_ok, cat, outcomes) ==
    LET mappings == IF db_ok THEN LoadProductTypeMappings(st) ELSE <<>>
        worklist == GetProductsForTypeTagging(cat, mappings)
    IN IF NoMappings(mappings) THEN EndedWithout("no_mapping")
       ELSE IF worklist = <<>> THEN EndedWithout("nothing_to_do")
       ELSE ApplyAuto(worklist, outcomes)

\* The products the catalog may hold: a type with one tag, the same type with
\* two tags, and another type without tags.
ProductPool ==
    { [product_type |-> <<"S">>, tags |-> <<"a">>],
      [product_type |-> <<"S">>, tags |-> <<"a", ",", " ", "b">>],
      [product_type |-> <<"H">>, tags |-> <<>>] }

Catalogs == UNION {[1..n -> ProductPool] : n \in 0..MaxProducts}

\* The stores a run may find: empty, one type, and two types of which the
\* second owes a tag that holds ", ".
RunStores ==
    { {},
      {[product_type |-> <<"S">>, tags |-> <<"b", ";", "a">>]},
      {[product_type |-> <<"S">>, tags |-> <<"b", ";", "a">>],
       [product_type |-> <<"H">>, tags |-> <<"a", ",", " ", "b">>]} }

RunInit ==
    /\ store \in RunStores
    /\ st_phase = "menu"
    /\ st_prev = {}
    /\ st_op = NoOp
    /\ st_msg = "none"
    /\ catalog \in Catalogs
    /\ session = "none"
    /\ pc = "idle"
    /\ mode = "none"
    /\ product_type_mappings = <<>>
    /\ product_page = <<>>
    /\ fetched = 0
    /\ products_with_type_tags = <<>>
    /\ item = 1
    /\ update_count = 0
    /\ ru_processed = <<>>
    /\ ru_attempts = <<>>
    /\ ru_outcomes = <<>>
    /\ ru_saved = <<>>
    /\ ru_asked = FALSE
    /\ ru_granted = FALSE
    /\ ru_error = FALSE
    /\ ru_failed = "none"
    /\ ru_end = "none"
    /\ ru_catalog0 = catalog
    /\ ru_scanned = FALSE
    /\ ru_runs = 0
    /\ HarnessIdle

\* A run begins: its locals and its record are fresh.
Begin(m) ==
    /\ pc = "idle"
    /\ ru_runs < MaxRuns
    /\ pc' = "setup"
    /\ mode' = m
    /\ product_type_mappings' = <<>>
    /\ product_page' = <<>>
    /\ fetched' = 0
    /\ products_with_type_tags' = <<>>
    /\ item' = 1
    /\ update_count' = 0
    /\ ru_processed' = <<>>
    /\ ru_attempts' = <<>>
    /\ ru_outcomes' = <<>>
    /\ ru_saved' = <<>>
    /\ ru_asked' = FALSE
    /\ ru_granted' = FALSE
    /\ ru_error' = FALSE
    /\ ru_failed' = "none"
    /\ ru_end' = "none"
    /\ ru_catalog0' = catalog
    /\ ru_scanned' = FALSE
    /\ UNCHANGED <<ru_runs, caVars, stVars, harnessVars>>

\* admin_menu choice 5: manage_product_type_tags()
StartInteractive == Begin("interactive")

\* The scheduled job: auto_manage_tags_without_confirmation()
StartAuto == Begin("auto")

\* setup_session(): activates the session, or raises.
SetupSession ==
    /\ pc = "setup"
    /\ \E ok \in BOOLEAN :
          IF ok
          THEN /\ session' = "active"
               /\ pc' = "load"
               /\ ru_failed' = ru_failed
          ELSE /\ session' = session
               /\ pc' = "except"
               /\ ru_failed' = "session"
    /\ UNCHANGED <<catalog, mode, product_type_mappings, product_page, fetched,
                   products_with_type_tags, item, update_count, ru_processed,
                   ru_attempts, ru_outcomes, ru_saved, ru_asked, ru_granted, ru_error, ru_end,
                   ru_catalog0, ru_scanned, ru_runs, stVars, harnessVars>>

\* load_product_type_mappings() and the test that follows (lines 273-276):
\* a database error is caught inside and gives the empty mapping.
LoadMappings ==
    /\ pc = "load"
    /\ \E db_ok \in BOOLEAN :
          LET mappings == IF db_ok THEN LoadProductTypeMappings(store) ELSE <<>>
          IN /\ product_type_mappings' = mappings
             /\ IF NoMappings(mappings)
                THEN /\ pc' = "finally"
                     /\ ru_end' = "no_mapping"
                ELSE /\ pc' = "find"
                     /\ ru_end' = ru_end
    /\ UNCHANGED <<caVars, mode, product_page, fetched, products_with_type_tags, item,
                   update_count, ru_processed, ru_attempts, ru_outcomes, ru_saved, ru_asked,
                   ru_granted, ru_error, ru_failed, ru_catalog0, ru_scanned, ru_runs,
                   stVars, harnessVars>>

\* The fetch that raised is swallowed by the scan, which returns what it has
\* collected so far.
OnFetchError_ScanReturns(collected) ==
    [pc |-> "scan", products_with_type_tags |-> collected]

\* shopify.Product.find / next_page raising (241, 261): nothing in the scan
\* catches it, so it leaves get_products_for_type_tagging, whose worklist is
\* lost, and reaches the run's except clause (304, 403).
OnFetchError(collected) ==
    [pc |-> "except", products_with_type_tags |-> <<>>]

\* get_products_for_type_tagging, lines 233-242: nothing is fetched for an
\* empty mapping; otherwise the first page is fetched (of any size the shop
\* chooses, empty only for an empty catalog), or the fetch raises.
FindFirstPage ==
    /\ pc = "find"
    /\ \E ok \in BOOLEAN :
          IF NoMappings(product_type_mappings)
          THEN /\ pc' = "scan"
               /\ product_page' = <<>>
               /\ fetched' = fetched
               /\ ru_failed' = ru_failed
          ELSE IF ok
          THEN /\ pc' = "scan"
               /\ \E k \in (IF catalog = <<>> THEN {0} ELSE 1..Len(catalog)) :
                     /\ product_page' = PageOf(catalog, 0, k)
                     /\ fetched' = k
               /\ ru_failed' = ru_failed
          ELSE /\ pc' = OnFetchError(<<>>).pc
               /\ product_page' = product_page
               /\ fetched' = fetched
               /\ ru_failed' = "fetch"
    /\ UNCHANGED <<caVars, mode, product_type_mappings, products_with_type_tags, item,
                   update_count, ru_processed, ru_attempts, ru_outcomes, ru_saved, ru_asked,
                   ru_granted, ru_error, ru_end, ru_catalog0, ru_scanned, ru_runs,
                   stVars, harnessVars>>

\* The loop never asks for a next page.
HasNextPage_Never(fetched_count, total) == FALSE

\* if hasattr(product_page, 'next_page_url') and product_page.next_page_url
\* (line 260): the shop gives the page a next_page_url while products remain.
HasNextPage(fetched_count, total) == fetched_count < total

\* One turn of the while loop (lines 243-263): the page's products are
\* examined, then the next page is fetched if the shop reports one (that fetch
\* may raise); without a next page the loop's page becomes None.
ScanPage ==
    /\ pc = "scan"
    /\ product_page # <<>>
    /\ ru_processed' = ru_processed \o [i \in 1..Len(product_page) |-> product_page[i].id]
    /\ \E found \in {ScanProducts(product_page, product_type_mappings)} :
          IF HasNextPage(fetched, Len(catalog))
          THEN \E ok \in BOOLEAN :
                  IF ok
                  THEN /\ \E k \in 1..(Len(catalog) - fetched) :
                             /\ product_page' = PageOf(catalog, fetched, k)
                             /\ fetched' = fetched + k
                       /\ products_with_type_tags' = products_with_type_tags \o found
                       /\ pc' = "scan"
                       /\ ru_failed' = ru_failed
                  ELSE /\ product_page' = <<>>
                       /\ fetched' = fetched
                       /\ products_with_type_tags' =
                             OnFetchError(products_with_type_tags \o found)
                                 .products_with_type_tags
                       /\ pc' = OnFetchError(products_with_type_tags \o found).pc
                       /\ ru_failed' = "fetch"
          ELSE /\ product_page' = <<>>
               /\ fetched' = fetched
               /\ products_with_type_tags' = products_with_type_tags \o found
               /\ pc' = "scan"
               /\ ru_failed' = ru_failed
    /\ UNCHANGED <<caVars, mode, product_type_mappings, item, update_count, ru_attempts, ru_outcomes,
                   ru_saved, ru_asked, ru_granted, ru_error, ru_end, ru_catalog0,
                   ru_scanned, ru_runs, stVars, harnessVars>>

\* The scan returns (line 265) and the run looks at the worklist (279-281):
\* empty, the run ends; otherwise the interactive run goes to its
\* confirmation and the unattended run to the apply loop.
ScanDone ==
    /\ pc = "scan"
    /\ product_page = <<>>
    /\ ru_scanned' = TRUE
    /\ IF products_with_type_tags = <<>>
       THEN /\ pc' = "finally"
            /\ ru_end' = "nothing_to_do"
       ELSE /\ pc' = IF mode = "interactive" THEN "confirm" ELSE "apply"
            /\ ru_end' = ru_end
    /\ item' = 1
    /\ update_count' = 0
    /\ UNCHANGED <<caVars, mode, product_type_mappings, product_page, fetched,
                   products_with_type_tags, ru_processed, ru_attempts, ru_outcomes, ru_saved,
                   ru_asked, ru_granted, ru_error, ru_failed, ru_catalog0, ru_runs,
                   stVars, harnessVars>>

\* display_products and get_user_confirmation (lines 283-287): an answer other
\* than s or n is asked again; input() may raise (end of input).
Confirm ==
    /\ pc = "confirm"
    /\ ru_asked' = TRUE
    /\ \E eof \in BOOLEAN, response \in Responses :
          IF eof
          THEN /\ pc' = "except"
               /\ ru_granted' = FALSE
               /\ ru_end' = ru_end
               /\ ru_failed' = "input"
          ELSE IF ValidResponse(response)
          THEN LET granted == (Lower(Strip(response)) = <<"s">>)
               IN /\ pc' = AfterConfirmation(granted)
                  /\ ru_granted' = granted
                  /\ ru_end' = IF pc' = "finally" THEN "declined" ELSE ru_end
                  /\ ru_failed' = ru_failed
          ELSE /\ pc' = "confirm"
               /\ ru_granted' = FALSE
               /\ ru_end' = ru_end
               /\ ru_failed' = ru_failed
    /\ UNCHANGED <<caVars, mode, product_type_mappings, product_page, fetched,
                   products_with_type_tags, item, update_count, ru_processed,
                   ru_attempts, ru_outcomes, ru_saved, ru_error, ru_catalog0, ru_scanned,
                   ru_runs, stVars, harnessVars>>

\* The apply loop fetches the product again before it merges.
TagsAtApply_Refetched(scanned_tags, live_tags) == live_tags

\* product.tags in the apply loop (lines 292, 392): product is the object the
\* scan put in the worklist, so its tags are those of the scan; the catalog's
\* tag string of this moment is not read.
TagsAtApply(scanned_tags, live_tags) == scanned_tags

\* One turn of the apply loop (lines 290-301, 390-400): the merged string is
\* put on the product and saved; a save that returns is counted, whatever it
\* returned; a save that raises is reported and the loop goes on.
ApplyItem ==
    /\ pc = "apply"
    /\ item <= Len(products_with_type_tags)
    /\ \E outcome \in SaveOutcomes, w \in {products_with_type_tags[item]} :
          \E new_tags \in {MergeTags(TagsAtApply(w.tags, catalog[w.id].tags),
                                    w.tags_to_add)} :
             /\ products_with_type_tags' =
                    [products_with_type_tags EXCEPT ![item].tags = new_tags]
             /\ ru_attempts' = Append(ru_attempts, w.id)
             /\ ru_outcomes' = Append(ru_outcomes, outcome)
             /\ IF Written(outcome)
                THEN /\ catalog' = [catalog EXCEPT ![w.id].tags = new_tags]
                     /\ ru_saved' = Append(ru_saved, [id |-> w.id, tags |-> new_tags])
                ELSE /\ catalog' = catalog
                     /\ ru_saved' = ru_saved
             /\ IF CountedAsUpdated(outcome)
                THEN /\ update_count' = update_count + 1
                     /\ item' = item + 1
                ELSE /\ update_count' = update_count
                     /\ item' = AfterSaveFailure(item, Len(products_with_type_tags))
    /\ UNCHANGED <<session, pc, mode, product_type_mappings, product_page, fetched,
                   ru_processed, ru_asked, ru_granted, ru_error, ru_failed, ru_end,
                   ru_catalog0, ru_scanned, ru_runs, stVars, harnessVars>>

\* After the loop: the counts are printed (lines 302-303, 401-402).
Report ==
    /\ pc = "apply"
    /\ item > Len(products_with_type_tags)
    /\ pc' = "finally"
    /\ ru_end' = "completed"
    /\ UNCHANGED <<caVars, mode, product_type_mappings, product_page, fetched,
                   products_with_type_tags, item, update_count, ru_processed,
                   ru_attempts, ru_outcomes, ru_saved, ru_asked, ru_granted, ru_error, ru_failed,
                   ru_catalog0, ru_scanned, ru_runs, stVars, harnessVars>>

\* except Exception as e: print(...)   (lines 304-305, 403-404)
ReportError ==
    /\ pc = "except"
    /\ pc' = "finally"
    /\ ru_error' = TRUE
    /\ ru_end' = "error"
    /\ UNCHANGED <<caVars, mode, product_type_mappings, product_page, fetched,
                   products_with_type_tags, item, update_count, ru_processed,
                   ru_attempts, ru_outcomes, ru_saved, ru_asked, ru_granted, ru_failed, ru_catalog0,
                   ru_scanned, ru_runs, stVars, harnessVars>>

\* finally: the session is cleared and the run returns.
ClearSession ==
    /\ pc = "finally"
    /\ session' = ClearedSession(session)
    /\ pc' = "idle"
    /\ ru_runs' = ru_runs + 1
    /\ UNCHANGED <<catalog, mode, product_type_mappings, product_page, fetched,
                   products_with_type_tags, item, update_count, ru_processed,
                   ru_attempts, ru_outcomes, ru_saved, ru_asked, ru_granted, ru_error, ru_failed,
                   ru_end, ru_catalog0, ru_scanned, stVars, harnessVars>>

\* The steps of a run once it has begun.
RunStep ==
    \/ SetupSession
    \/ LoadMappings
    \/ FindFirstPage
    \/ ScanPage
    \/ ScanDone
    \/ Confirm
    \/ ApplyItem
    \/ Report
    \/ ReportError
    \/ ClearSession

Next == StartInteractive \/ StartAuto \/ RunStep

Spec == RunInit /\ [][Next]_vars

\* A run that has begun keeps taking steps: the process is not stopped, the
\* remote calls return or raise, and the operator ends up answering s or n.
LiveSpec == Spec /\ WF_vars(RunStep)

\* ---- a run beside another editor of the catalog -------------------------
\* The tag string another editor of the shop gives a product.
EditedTags == <<"b">>

\* Between the scan of a run and its first save, someone else saves a product
\* of the catalog with another tag string (once per run). The products the
\* run holds (the worklist, lines 255, 290, 390) are objects of their own and
\* keep the tags they were fetched with.
ExternalEdit ==
    /\ pc \in {"confirm", "apply"}
    /\ ru_attempts = <<>>
    /\ catalog = ru_catalog0
    /\ \E i \in 1..Len(catalog) :
          /\ catalog[i].tags # EditedTags
          /\ catalog' = [catalog EXCEPT ![i].tags = EditedTags]
    /\ UNCHANGED <<session, runVars, histVars, stVars, harnessVars>>

EditNext == Next \/ ExternalEdit

EditSpec == RunInit /\ [][EditNext]_vars

\* =========================================================== properties

\* ---- reconciler --------------------------------------------------------
\* Positions of the catalog separator ", " in s.
SeparatorAt(s) == {k \in 1..(Len(s) - 1) : s[k] = "," /\ s[k + 1] = " "}

\* The tags of a catalog tag string, stated without Split: the maximal
\* stretches of s between two occurrences of ", " (an occurrence cannot
\* overlap another one); the empty string holds no tag.
TagSetOf(s) ==
    IF s = <<>> THEN {}
    ELSE { SubSeq(s, p[1], p[2]) :
             p \in { q \in (1..(Len(s) + 1)) \X (0..Len(s)) :
                       /\ q[1] <= q[2] + 1
                       /\ q[1] = 1 \/ (q[1] - 2) \in SeparatorAt(s)
                       /\ q[2] = Len(s) \/ (q[2] + 1) \in SeparatorAt(s)
                       /\ \A k \in SeparatorAt(s) : ~(q[1] <= k /\ k <= q[2]) } }

\* The positions of desired whose tag is not a current tag.
MissingAt(desired, current) == {i \in 1..Len(desired) : desired[i] \notin current}

\* res lists desired's entries at the positions K, in the order of desired.
IsSelection(res, desired, K) ==
    /\ Len(res) = Cardinality(K)
    /\ \A i \in K : res[Cardinality({j \in K : j <= i})] = desired[i]

NoDuplicates(seq) == \A i, j \in 1..Len(seq) : seq[i] = seq[j] => i = j

\* C3: reconciliation is idempotent: reconciling the tag string a first
\* reconciliation produced, against the same desired tags, finds nothing to
\* add and leaves the tag string as the first reconciliation left it.
C3_Idempotent ==
    rc_phase = "twice" => rc_add2 = <<>> /\ rc_tags2 = rc_tags1

\* C4: after the merge of the apply step, every tag of the current tag string
\* and every tag of tags_to_add is found in the result when it is split on
\* ", ", and that split holds no tag twice.
C4_MergeKeepsAllNoDuplicates ==
    (rc_phase # "input" /\ rc_add1 # <<>>) =>
        /\ \A t \in TagSetOf(rc_tags0) \cup Range(rc_add1) :
              t \in Range(Split(rc_tags1, SHOPIFY_TAG_SEPARATOR))
        /\ NoDuplicates(Split(rc_tags1, SHOPIFY_TAG_SEPARATOR))

\* C6: tags_to_add is the desired tags that are no exact member of the tags of
\* the current string, in the order of desired (an empty current string gives
\* all of them); "old, sale" against ["sale", "new"] gives ["new"] and the
\* merged string "new, old, sale".
C6_TagsToAddIsOrderedDifference ==
    rc_phase # "input" =>
        /\ IsSelection(rc_add1, rc_type_tags, MissingAt(rc_type_tags, TagSetOf(rc_tags0)))
        /\ (rc_tags0 = <<>> => rc_add1 = rc_type_tags)
        /\ (rc_tags0 = ExampleCurrent /\ rc_type_tags = ExampleDesired) =>
              /\ rc_add1 = << <<"n", "e", "w">> >>
              /\ rc_tags1 = ExampleMerged

\* C6 witness: the scenario has been reconciled and "new" alone is to add.
C6_Witness ==
    /\ rc_phase = "once"
    /\ rc_tags0 = ExampleCurrent
    /\ rc_type_tags = ExampleDesired
    /\ rc_add1 = << <<"n", "e", "w">> >>

\* ---- mapping store -----------------------------------------------------
\* s is empty or holds blanks only.
IsBlank(s) == \A i \in 1..Len(s) : s[i] = " "

\* The last operation was an upsert of a product type that was stored before
\* it, with both inputs given.
UpsertOfExisting ==
    /\ st_op.op = "upsert"
    /\ ~IsBlank(st_op.product_type)
    /\ ~IsBlank(st_op.tags)
    /\ Existing(st_prev, Strip(st_op.product_type))

\* The store holds exactly the newly supplied tags for the upserted product
\* type, in a single row, and every other row is as it was.
ReplacedByLastUpsert ==
    /\ RowsOf(store, Strip(st_op.product_type)) =
          {[product_type |-> Strip(st_op.product_type), tags |-> Strip(st_op.tags)]}
    /\ store \ RowsOf(store, Strip(st_op.product_type)) =
          st_prev \ RowsOf(st_prev, Strip(st_op.product_type))

\* C8: every row of the store has a non-empty product_type that no other row
\* has, and non-empty tags, whatever upserts, removals and imports came before.
C8_StoreRowsValid ==
    /\ \A r \in store : r.product_type # <<>> /\ r.tags # <<>>
    /\ \A r1, r2 \in store : r1.product_type = r2.product_type => r1 = r2

\* C9: an upsert whose product type or tags are empty (blank once stripped, as
\* the menu strips them) is refused with the "required" message, leaves the
\* store as it was, and the menu goes on.
C9_EmptyUpsertRefused ==
    (st_op.op = "upsert" /\ (IsBlank(st_op.product_type) \/ IsBlank(st_op.tags))) =>
        /\ st_msg = "required"
        /\ store = st_prev
        /\ st_phase = "menu"

\* C9 witness: an upsert with an empty product type and real tags was refused
\* while the store held rows.
C9_Witness ==
    /\ st_op.op = "upsert"
    /\ st_op.product_type = <<>>
    /\ st_op.tags = <<"a", ";", "b">>
    /\ st_msg = "required"
    /\ store # {}

\* C10 as claimed: every upsert of an existing product type (that the database
\* does not fail) leaves exactly the new tags for it and every other row
\* unchanged.
C10_UpsertAlwaysReplaces ==
    (UpsertOfExisting /\ st_op.db_ok) => ReplacedByLastUpsert

\* C10 amended: an upsert of an existing product type that the operator
\* confirms and the database commits leaves exactly the new tags for it (one
\* row, nothing of the old tags) and every other row unchanged; declined or
\* failed, it leaves the store as it was.
C10_ConfirmedUpsertReplaces ==
    UpsertOfExisting =>
        IF st_op.confirm /\ st_op.db_ok
        THEN ReplacedByLastUpsert
        ELSE store = st_prev

\* C10 witness: "S" held "a;b", the confirmed upsert of "b" left exactly "b",
\* beside another row.
C10_Witness ==
    /\ UpsertOfExisting
    /\ st_op.confirm
    /\ st_op.db_ok
    /\ [product_type |-> <<"S">>, tags |-> <<"a", ";", "b">>] \in st_prev
    /\ [product_type |-> <<"S">>, tags |-> <<"b">>] \in store
    /\ Cardinality(store) = 2

\* ---- tagging runs ------------------------------------------------------
\* The ids of a sequence of worklist items or saves, in order.
IdsOf(items) == [i \in 1..Len(items) |-> items[i].id]

\* The tags the store owes to a product type it holds.
OwedTags(product_type) ==
    ParseTags((CHOOSE r \in store : r.product_type = product_type).tags)

\* The product's type is a key of the store and some tag owed to that type is
\* none of the product's current tags.
LacksOwedTag(product) ==
    /\ \E r \in store : r.product_type = product.product_type
    /\ \E i \in DOMAIN OwedTags(product.product_type) :
          OwedTags(product.product_type)[i] \notin TagSetOf(product.tags)

\* C1: no run is over with the session still active, and every run that has
\* begun is eventually over with the session cleared, whichever way it goes
\* (no mapping, nothing to do, declined, completed, or an error on the way).
C1_SessionClosedOnEveryExit ==
    /\ [](pc = "idle" => session = "none")
    /\ [](pc # "idle" => <>(pc = "idle" /\ session = "none"))

\* C1 witness: a run whose session was active and that failed at the
\* confirmation prompt is over, its error reported, its session cleared.
C1_Witness ==
    /\ pc = "idle"
    /\ ru_runs > 0
    /\ ru_asked
    /\ ru_error
    /\ ru_end = "error"
    /\ session = "none"

\* C2: in the apply loop every worklist item before the current one has been
\* attempted, in order, whether its save succeeded or failed; update_count is
\* the number of saves that succeeded, each of them is in the catalog, and a
\* completed run has attempted the whole worklist.
C2_BatchNeverAborted ==
    /\ pc = "apply" => ru_attempts = IdsOf(SubSeq(products_with_type_tags, 1, item - 1))
    /\ update_count = Len(ru_saved)
    /\ \A k \in 1..Len(ru_saved) : catalog[ru_saved[k].id].tags = ru_saved[k].tags
    /\ ru_end = "completed" =>
          /\ ru_attempts = IdsOf(products_with_type_tags)
          /\ update_count <= Len(products_with_type_tags)

\* C5: the worklist the scan returns holds exactly the products whose type is
\* a key of the store and that lack a tag owed to their type, each once.
C5_WorklistIsExactlyTheProductsLackingTags ==
    ru_scanned =>
        /\ Range(IdsOf(products_with_type_tags)) =
              {i \in 1..Len(ru_catalog0) : LacksOwedTag(ru_catalog0[i])}
        /\ NoDuplicates(IdsOf(products_with_type_tags))

\* C5 witness: of a product lacking tags, a product of a type the store does
\* not hold and a product holding all its tags, the scan returned the first.
C5_Witness ==
    /\ ru_scanned
    /\ store = {[product_type |-> <<"S">>, tags |-> <<"b", ";", "a">>]}
    /\ ru_catalog0 = << [product_type |-> <<"S">>, tags |-> <<"a">>],
                        [product_type |-> <<"H">>, tags |-> <<>>],
                        [product_type |-> <<"S">>, tags |-> <<"a", ",", " ", "b">>] >>
    /\ IdsOf(products_with_type_tags) = <<1>>

\* C7: the interactive run attempts a save only after the scan returned and
\* the confirmation was requested and granted; declined, or with an empty
\* worklist, it ends without an attempt and with the catalog as it found it.
C7_NoWriteWithoutConfirmation ==
    mode = "interactive" =>
        /\ ru_attempts # <<>> => (ru_scanned /\ ru_asked /\ ru_granted)
        /\ ru_saved = <<>> => catalog = ru_catalog0
        /\ ru_end \in {"declined", "nothing_to_do"} =>
              (ru_attempts = <<>> /\ catalog = ru_catalog0)

\* C7 witness: an interactive run with a worklist was declined and is over,
\* the catalog untouched.
C7_Witness ==
    /\ mode = "interactive"
    /\ pc = "idle"
    /\ ru_end = "declined"
    /\ ru_asked
    /\ products_with_type_tags # <<>>
    /\ catalog = ru_catalog0

\* A spreadsheet row whose two cells are strings that are not blank.
WellFormedRow(row) ==
    /\ row.tipo_produto.kind = "str" /\ ~IsBlank(row.tipo_produto.val)
    /\ row.tags.kind = "str" /\ ~IsBlank(row.tags.val)

\* The last operation read the rows of the spreadsheet: the import of the
\* menu once confirmed, or the import setup_database runs on an empty table.
ImportedSheet ==
    /\ st_op.file = "ok"
    /\ \/ st_op.op = "import" /\ st_op.confirm
       \/ st_op.op = "setup"

\* The store holds the well-formed row i of the sheet: its product type,
\* stripped, with the tags of the last well-formed row of that product type.
RowStored(rows, i) ==
    LET product_type == Strip(rows[i].tipo_produto.val)
        last == CHOOSE j \in i..Len(rows) :
                    /\ WellFormedRow(rows[j])
                    /\ Strip(rows[j].tipo_produto.val) = product_type
                    /\ \A k \in (j + 1)..Len(rows) :
                          ~(WellFormedRow(rows[k])
                              /\ Strip(rows[k].tipo_produto.val) = product_type)
    IN [product_type |-> product_type, tags |-> Strip(rows[last].tags.val)] \in store

\* C11: an import of the spreadsheet stores every well-formed row of the
\* sheet, whatever the other rows are (a missing cell, a blank cell, a cell
\* that is no string), before or after it.
C11_WellFormedRowsStored ==
    ImportedSheet =>
        \A i \in 1..Len(st_op.rows) :
            WellFormedRow(st_op.rows[i]) => RowStored(st_op.rows, i)

\* ---- merge ---------------------------------------------------------------
\* The tags a merge is given: those of the tag string and those to add.
MergedSet(m) == TagSetOf(m.tags) \cup Range(m.tags_to_add)

\* The same tags once blanks around a tag are disregarded.
StrippedSet(m) == {Strip(t) : t \in MergedSet(m)}

\* s is in ascending order, no entry twice.
IsAscending(s) == \A i \in 1..(Len(s) - 1) : StrLess(s[i], s[i + 1])

\* new is the tags of m in ascending order, joined by ", ".
IsSortedJoin(new, m) ==
    LET s == Sorted(MergedSet(m))
    IN /\ Range(s) = MergedSet(m)
       /\ Len(s) = Cardinality(MergedSet(m))
       /\ IsAscending(s)
       /\ new = Join(SHOPIFY_TAG_SEPARATOR, s)

\* C12 as claimed: two merges whose inputs hold the same tags, in whatever
\* order and with duplicates that differ by blanks only, write the same string.
C12_MergeOrderAndBlankIndependent ==
    (mg_phase = "both" /\ StrippedSet(mg_a) = StrippedSet(mg_b)) => mg_new_a = mg_new_b

\* C12 amended: the merged string lists the tags in ascending order, so two
\* merges whose inputs hold the same tags (as exact strings), in whatever
\* order and however often, write the same string.
C12_MergeOrderIndependent ==
    mg_phase = "both" =>
        /\ IsSortedJoin(mg_new_a, mg_a)
        /\ IsSortedJoin(mg_new_b, mg_b)
        /\ MergedSet(mg_a) = MergedSet(mg_b) => mg_new_a = mg_new_b

\* C12 witness: "b" with "a" to add and "a" with "b" to add both give "a, b".
C12_Witness ==
    /\ mg_phase = "both"
    /\ mg_a = [tags |-> <<"b">>, tags_to_add |-> << <<"a">> >>]
    /\ mg_b = [tags |-> <<"a">>, tags_to_add |-> << <<"b">> >>]
    /\ mg_new_a = <<"a", ",", " ", "b">>
    /\ mg_new_b = mg_new_a

\* The first n products of the catalog, by position.
FirstIds(n) == [i \in 1..n |-> i]

\* C13: while the scan is at a page, it has examined the products of the
\* pages before it, each once and in page order; the scan comes to an end (it
\* returns, or a fetch raises); and when it returns for a mapping with entries
\* it has examined every product of the catalog once, in order, whatever the
\* sizes of the pages and also when the catalog is empty.
C13_ScanExaminesEveryPageOnce ==
    /\ [](pc = "scan" => ru_processed = FirstIds(fetched - Len(product_page)))
    /\ [](pc = "scan" => <>(ru_scanned \/ pc = "except"))
    /\ []((ru_scanned /\ DOMAIN product_type_mappings # {}) =>
              ru_processed = FirstIds(Len(ru_catalog0)))

\* C13 witness: the scan is at a second or third page, which holds the third
\* product, with the first two examined.
C13_Witness ==
    /\ pc = "scan"
    /\ fetched = 3
    /\ ru_processed = <<1, 2>>
    /\ [i \in 1..Len(product_page) |-> product_page[i].id] = <<3>>

\* Opening the session or fetching a page raised in the run.
ConnectionFailed == ru_failed \in {"session", "fetch"}

\* C14: once opening the session or fetching a page has raised, the run goes
\* nowhere but to its error report and its end: no save is attempted and the
\* catalog stays as the run found it, also when earlier pages had put items on
\* the worklist; the run comes to its end, and there the error has been
\* reported and the session is cleared.
C14_RunAbandonedOnConnectionFailure ==
    /\ [](ConnectionFailed =>
            /\ pc \in {"except", "finally", "idle"}
            /\ ru_attempts = <<>>
            /\ ru_saved = <<>>
            /\ catalog = ru_catalog0)
    /\ []((ConnectionFailed /\ pc \in {"finally", "idle"}) =>
            (ru_error /\ ru_end = "error"))
    /\ []((ConnectionFailed /\ pc = "idle") => session = "none")
    /\ [](ConnectionFailed => <>(pc = "idle" /\ ru_error /\ session = "none"))

\* C14 witness: the fetch of a later page raised after the first product,
\* which lacks a tag its type owes, had been examined; the run is over, the
\* error reported, nothing written, the session cleared.
C14_Witness ==
    /\ pc = "idle"
    /\ ru_failed = "fetch"
    /\ ru_processed # <<>>
    /\ LacksOwedTag(ru_catalog0[1])
    /\ ru_error
    /\ ru_attempts = <<>>
    /\ catalog = ru_catalog0
    /\ session = "none"

\* The save outcomes of the run, per worklist item.
RunOutcomes == ru_outcomes

\* The database gave the run the rows of the store.
RunDbOk == product_type_mappings = LoadProductTypeMappings(store)

\* What the run did: how it ended, its saves in order, its two counts.
RunResult ==
    [end |-> ru_end, writes |-> ru_saved, update_count |-> update_count,
     total |-> Len(products_with_type_tags)]

\* The run is over, nothing raised outside the apply loop, and the operator,
\* if asked, granted.
RunOverGranted ==
    /\ pc = "idle"
    /\ ru_runs > 0
    /\ ~ru_error
    /\ ru_end # "declined"

\* C15: a run of either kind that is over (its confirmation, if any, granted)
\* has made the saves, with the tag strings and in the order, and has the
\* counts that manage_product_type_tags with the confirmation granted and
\* auto_manage_tags_without_confirmation both give for the run's store (and
\* whether it could be read), its catalog and its save outcomes; the two give
\* the same.
C15_UnattendedSameAsInteractive ==
    RunOverGranted =>
        /\ ManageProductTypeTags(store, RunDbOk, ru_catalog0, TRUE, RunOutcomes)
              = AutoManageTags(store, RunDbOk, ru_catalog0, RunOutcomes)
        /\ RunResult = ManageProductTypeTags(store, RunDbOk, ru_catalog0, TRUE, RunOutcomes)
        /\ RunResult = AutoManageTags(store, RunDbOk, ru_catalog0, RunOutcomes)

\* C15 witness: an unattended run over three items whose second save
\* returned False and whose third raised is over with what the interactive
\* run gives: item 1 written, 2 of 3 reported.
C15_Witness ==
    /\ RunOverGranted
    /\ mode = "auto"
    /\ ru_attempts = <<1, 2, 3>>
    /\ ru_outcomes = <<"true", "false", "raise">>
    /\ update_count = 2
    /\ RunResult =
          ManageProductTypeTags(store, RunDbOk, ru_catalog0, TRUE, ru_outcomes)
    /\ RunResult.total = 3
    /\ Len(RunResult.writes) = 1

\* The last store operation was remove_mapping, called by the menu (key not
\* blank, confirmation granted) with a database that answers.
RemoveCalled(op) ==
    /\ op.op = "remove"
    /\ ~IsBlank(op.product_type)
    /\ op.confirm
    /\ op.db_ok

\* C16: after remove(product_type) the store holds no entry for product_type
\* and every other entry as before; it reports "removed" if there was an entry
\* and otherwise "not found" with the store unchanged and no error; a second
\* remove of the same product_type right after the first leaves the store as
\* the first left it and reports "not found".
C16_RemoveIdempotentAndFramed ==
    /\ [](RemoveCalled(st_op) =>
            LET product_type == Strip(st_op.product_type)
            IN /\ RowsOf(store, product_type) = {}
               /\ store \ RowsOf(store, product_type) =
                     st_prev \ RowsOf(st_prev, product_type)
               /\ st_msg = IF Existing(st_prev, product_type)
                           THEN "removed" ELSE "not_found"
               /\ ~Existing(st_prev, product_type) => store = st_prev)
    /\ [][(/\ RemoveCalled(st_op)
           /\ RemoveCalled(st_op')
           /\ Strip(st_op'.product_type) = Strip(st_op.product_type)
           /\ st_prev' = store)
          => (store' = store /\ st_msg' = "not_found")]_vars

\* C16 witness: a remove of a type without entry, from a store that holds
\* an entry of another type, reported "not found" and changed nothing.
C16_Witness ==
    /\ RemoveCalled(st_op)
    /\ st_prev # {}
    /\ ~Existing(st_prev, Strip(st_op.product_type))
    /\ store = st_prev
    /\ st_msg = "not_found"

\* The ids of the worklist's items, in worklist order.
WorklistIds ==
    [n \in 1..Len(products_with_type_tags) |-> products_with_type_tags[n].id]

\* The tags_to_add the worklist holds for the product id.
WorklistAdd(id) ==
    (CHOOSE w \in Range(products_with_type_tags) : w.id = id).tags_to_add

\* C17: the saves attempted so far in a run are the first items of the
\* worklist, each once and in worklist order, whether saved or failed (in the
\* apply loop, one attempt per item passed; after the loop, one per item);
\* every tag string saved is the merge of the tag string the product had at
\* the scan with its tags to add, whatever the catalog holds by then.
C17_EachItemOnceFromScannedTags ==
    /\ ru_attempts = SubSeq(WorklistIds, 1, Len(ru_attempts))
    /\ NoDuplicates(ru_attempts)
    /\ pc = "apply" => Len(ru_attempts) = item - 1
    /\ ru_end = "completed" => ru_attempts = WorklistIds
    /\ \A k \in 1..Len(ru_saved) :
          /\ ru_saved[k].id \in Range(ru_attempts)
          /\ ru_saved[k].tags =
                MergeTags(ru_catalog0[ru_saved[k].id].tags, WorklistAdd(ru_saved[k].id))

\* C17 witness: a finished run over three items; the second product was
\* given the tag string "b" by someone else after the scan and its save
\* failed: it was attempted once, between the first and the third, and the
\* string prepared for it is the merge of its scanned "a", not of "b".
C17_Witness ==
    /\ pc = "idle"
    /\ ru_end = "completed"
    /\ ru_attempts = <<1, 2, 3>>
    /\ [k \in 1..Len(ru_saved) |-> ru_saved[k].id] = <<1, 3>>
    /\ ru_catalog0[2].tags = <<"a">>
    /\ catalog[2].tags = EditedTags
    /\ products_with_type_tags[2].tags = <<"a", ",", " ", "b">>

\* C18: with an empty mapping store the scan gives the empty worklist; a run
\* examines no product, attempts and makes no save and leaves the catalog as
\* it was; it reports no error (other than a session that could not be set
\* up, which has nothing to do with the store), and once its session is set
\* up it ends with the "no mapping" message.
C18_EmptyStoreEmptyRun ==
    /\ [](store = {} =>
            /\ GetProductsForTypeTagging(ru_catalog0, LoadProductTypeMappings(store)) = <<>>
            /\ products_with_type_tags = <<>>
            /\ ru_processed = <<>>
            /\ ru_attempts = <<>>
            /\ ru_saved = <<>>
            /\ catalog = ru_catalog0
            /\ ru_error => ru_failed = "session")
    /\ []((store = {} /\ pc = "load") =>
            <>(pc = "idle" /\ ru_end = "no_mapping" /\ ~ru_error))

\* C18 witness: a run over a catalog of three products with an empty store
\* is over: "no mapping", no error, nothing examined, nothing saved.
C18_Witness ==
    /\ store = {}
    /\ Len(catalog) = 3
    /\ pc = "idle"
    /\ ru_runs > 0
    /\ ru_end = "no_mapping"
    /\ ~ru_error
    /\ ru_processed = <<>>
    /\ ru_saved = <<>>

\* The run is over, went through its apply loop and every save succeeded.
AllSavesSucceeded ==
    /\ pc = "idle"
    /\ ru_end = "completed"
    /\ \A n \in 1..Len(ru_outcomes) : Written(ru_outcomes[n])

\* C19: after a run in which every save succeeded, every product of the
\* catalog whose type is in the mapping carries every tag its type owes, and
\* a scan of the catalog as the run left it, with the same mapping, gives the
\* empty worklist (so the next run saves nothing).
C19_NothingOwedAfterFullRun ==
    AllSavesSucceeded =>
        /\ \A i \in 1..Len(catalog) :
              catalog[i].product_type \in DOMAIN product_type_mappings =>
                  \A t \in Range(product_type_mappings[catalog[i].product_type]) :
                      t \in TagSetOf(catalog[i].tags)
        /\ GetProductsForTypeTagging(catalog, product_type_mappings) = <<>>

\* The products a run has saved.
SavedIds == {ru_saved[k].id : k \in 1..Len(ru_saved)}

\* The product i of the catalog, as the run found it, lacked a tag that the
\* store's row of its type owes.
OwedAtScan(i) ==
    LET mappings == LoadProductTypeMappings(store)
        product == ru_catalog0[i]
    IN /\ product.product_type \in DOMAIN mappings
       /\ \E t \in Range(mappings[product.product_type]) :
             t \notin TagSetOf(product.tags)

\* C20: no step of a run changes the mapping store; a product is saved, or
\* differs from what the run found, only if it is an item of the run's
\* worklist, its type is mapped and it lacked an owed tag when the run began;
\* and every tag a product had when the run began is a tag it still has.
C20_RunKeepsStoreAndTags ==
    /\ [][store' = store]_vars
    /\ [](\A i \in 1..Len(catalog) :
            /\ catalog[i].product_type = ru_catalog0[i].product_type
            /\ TagSetOf(ru_catalog0[i].tags) \subseteq TagSetOf(catalog[i].tags)
            /\ (i \in SavedIds \/ catalog[i] # ru_catalog0[i]) =>
                  (i \in Range(WorklistIds) /\ OwedAtScan(i)))
    /\ [](SavedIds \subseteq 1..Len(catalog) /\ Len(catalog) = Len(ru_catalog0))

\* C20 witness: a finished run over a product lacking an owed tag, a product
\* of the same type carrying all of them and a product of an unmapped type
\* has saved the first, with its old tag kept, and left the other two alone.
C20_Witness ==
    /\ pc = "idle"
    /\ ru_end = "completed"
    /\ store = {[product_type |-> <<"S">>, tags |-> <<"b", ";", "a">>]}
    /\ ru_catalog0 = <<[product_type |-> <<"S">>, tags |-> <<"a">>],
                       [product_type |-> <<"S">>, tags |-> <<"a", ",", " ", "b">>],
                       [product_type |-> <<"H">>, tags |-> <<>>]>>
    /\ ru_saved = <<[id |-> 1, tags |-> <<"a", ",", " ", "b">>]>>
    /\ catalog = [ru_catalog0 EXCEPT ![1].tags = <<"a", ",", " ", "b">>]

====
